---- MODULE Spec2Model ----
(***************************************************************************)
(* dtool-lookup-server: the registration-consistency and permission-scoped *)
(* query core of src/dtool_lookup_server/utils.py.                         *)
(*                                                                         *)
(* The admin store (SQL tables User, BaseURI, Dataset and the two          *)
(* permission join tables) and the descriptive store (one MongoDB          *)
(* collection) are the state.  Every public function of utils.py that the  *)
(* properties below talk about is one action (a whole call), and           *)
(* register_dataset is in addition split into its store accesses for the   *)
(* concurrent specification.                                               *)
(***************************************************************************)
EXTENDS Integers, Sequences, FiniteSets, TLC

\* ------------------------------------------------------------------------
\* Bounds of the model and the input domains.
\* ------------------------------------------------------------------------

\* register_dataset calls per behaviour.
MaxRegistrations == 3
\* update_permissions calls per behaviour.
MaxPermissionUpdates == 2
\* Length of the list handed to register_users.
MaxUserListLen == 2

\* update_permissions and register_dataset calls together, where all calls
\* are interleaved.
MaxWrites == 3

Usernames == {"alice", "bob"}

\* "s3://x/" is a base URI that was registered without canonicalisation.
BaseUris == {"s3://x", "s3://y", "s3://x/"}

Uuid1 == "aaaaaaaa-bbbb-cccc-dddd-eeeeeeeeeeee"
Uuid2 == "11111111-2222-3333-4444-555555555555"
ShortUuid == "aaaaaaaa-bbbb"
Uuids == {Uuid1, Uuid2}

Uris == {"s3://x/ds1", "s3://y/ds2"}
Names == {"n1", "n2"}

\* Python's None.
None == <<>>

\* ------------------------------------------------------------------------
\* State.
\* ------------------------------------------------------------------------
VARIABLES
    users,            \* table User: set of rows [username, is_admin]
    base_uris,        \* table BaseURI: set of base URI strings
    search_perms,     \* join table of User.search_base_uris: <<username, base_uri>>
    register_perms,   \* join table of User.register_base_uris: <<username, base_uri>>
    datasets,         \* table Dataset: sequence of rows [uri, base_uri, uuid, name]
    collection,       \* mongo.db[MONGO_COLLECTION]: sequence of documents
    call,             \* the last call made: [op, ...arguments]
    ret,              \* its outcome: [status, value]
    last_registered,  \* history: (uuid, uri) -> payload of the last successful registration
    granted_search,   \* history: search grants made to users existing at the call
    granted_register, \* history: register grants made to users existing at the call
    nreg,             \* number of register_dataset calls made
    nperm,            \* number of update_permissions calls made
    proc              \* the register_dataset calls in flight, one per request thread

storeVars == <<users, base_uris, search_perms, register_perms, datasets, collection>>
histVars == <<last_registered, granted_search, granted_register>>
vars == <<users, base_uris, search_perms, register_perms, datasets, collection,
          call, ret, last_registered, granted_search, granted_register, nreg, nperm,
          proc>>

\* ------------------------------------------------------------------------
\* Mappings (Python dicts) and strings.
\* ------------------------------------------------------------------------
HasKey(m, k) == k \in DOMAIN m

SetKey(m, k, v) == [x \in DOMAIN m \cup {k} |-> IF x = k THEN v ELSE m[x]]

DelKey(m, k) == [x \in DOMAIN m \ {k} |-> m[x]]

endswith(s, suffix) ==
    /\ Len(s) >= Len(suffix)
    /\ SubSeq(s, Len(s) - Len(suffix) + 1, Len(s)) = suffix

Min(S) == CHOOSE x \in S : \A y \in S : x <= y

\* All sequences over S of length at most n.
RECURSIVE SeqsUpTo(_, _)
SeqsUpTo(S, n) ==
    IF n = 0 THEN {<<>>}
    ELSE LET shorter == SeqsUpTo(S, n - 1)
         IN shorter \cup {Append(s, x) : s \in {t \in shorter : Len(t) = n - 1}, x \in S}

\* All orders in which the elements of S can be iterated.
RECURSIVE Orders(_)
Orders(S) ==
    IF S = {} THEN {<<>>}
    ELSE UNION {{<<x>> \o o : o \in Orders(S \ {x})} : x \in S}

\* The outcome of a call that has written nothing (yet).
Outcome(status, value) ==
    [status |-> status, value |-> value,
     search_perms |-> search_perms, register_perms |-> register_perms,
     datasets |-> datasets, collection |-> collection]

\* An exception raised before any write.
Raise(error) == Outcome(error, None)

\* ------------------------------------------------------------------------
\* User helper functions.
\* ------------------------------------------------------------------------

\* User.query.filter_by(username=username).first(): the rows found, None if none.
_get_user_obj(username) ==
    LET found == {u \in users : u.username = username}
    IN IF found = {} THEN None ELSE CHOOSE u \in found : TRUE

user_exists(username) == _get_user_obj(username) # None

\* Faulty variant: an entry for a username that is present rewrites the row's
\* is_admin instead of being skipped.
RECURSIVE register_users_loop_updating(_, _)
register_users_loop_updating(us, list) ==
    IF list = <<>> THEN us
    ELSE LET user == Head(list)
             username == user.username
             is_admin == IF HasKey(user, "is_admin") THEN user.is_admin ELSE FALSE
         IN register_users_loop_updating(
                {u \in us : u.username # username}
                \cup {[username |-> username, is_admin |-> is_admin]},
                Tail(list))

\* The loop of register_users over the rest of the list; us is the User table
\* as the session sees it (the exists() query flushes the pending rows).
RECURSIVE register_users_loop(_, _)
register_users_loop(us, list) ==
    IF list = <<>> THEN us
    ELSE LET user == Head(list)
             username == user.username
             is_admin == IF HasKey(user, "is_admin") THEN user.is_admin ELSE FALSE
         IN IF \E u \in us : u.username = username
            THEN register_users_loop(us, Tail(list))
            ELSE register_users_loop(
                     us \cup {[username |-> username, is_admin |-> is_admin]},
                     Tail(list))

register_users(list) == register_users_loop(users, list)

\* ------------------------------------------------------------------------
\* Base URI helper functions.
\* ------------------------------------------------------------------------
_get_base_uri_obj(base_uri) ==
    IF base_uri \in base_uris THEN [base_uri |-> base_uri] ELSE None

base_uri_exists(base_uri) == _get_base_uri_obj(base_uri) # None

\* The BaseURI table keys its rows by base_uri: a second row for a registered
\* base URI is refused by the store.
base_uri_is_unique(base_uri) == base_uri \notin base_uris

register_base_uri(base_uri) == base_uris \cup {base_uri}

\* ------------------------------------------------------------------------
\* Permission helper functions.
\* ------------------------------------------------------------------------

\* user.search_base_uris.append(base_uri): the relation is a set of edges.
relationship_append(edges, username, base_uri) == edges \cup {<<username, base_uri>>}

\* Faulty variant: the edges of the base URI are rewritten, the listed users replacing
\* the ones granted before.
RECURSIVE grant_loop_adding(_, _, _)
grant_loop_adding(edges, usernames, base_uri) ==
    IF usernames = <<>> THEN edges
    ELSE grant_loop_adding(
             IF user_exists(Head(usernames))
             THEN relationship_append(edges, Head(usernames), base_uri)
             ELSE edges,
             Tail(usernames), base_uri)

grant_loop_rewriting(edges, usernames, base_uri) ==
    grant_loop_adding({e \in edges : e[2] # base_uri}, usernames, base_uri)

\* One of the two loops of update_permissions.
RECURSIVE grant_loop(_, _, _)
grant_loop(edges, usernames, base_uri) ==
    IF usernames = <<>> THEN edges
    ELSE grant_loop(
             IF user_exists(Head(usernames))
             THEN relationship_append(edges, Head(usernames), base_uri)
             ELSE edges,
             Tail(usernames), base_uri)

\* Faulty variant: the edges are added without looking the base URI up.
update_permissions_any_base_uri(permissions) ==
    [Outcome("ok", None) EXCEPT
        !.search_perms = grant_loop(search_perms,
                             permissions.users_with_search_permissions,
                             permissions.base_uri),
        !.register_perms = grant_loop(register_perms,
                               permissions.users_with_register_permissions,
                               permissions.base_uri)]

\* Faulty variant: a register grant brings the search grant with it.
update_permissions_register_implies_search(permissions) ==
    IF ~base_uri_exists(permissions.base_uri) THEN Raise("ValidationError")
    ELSE [Outcome("ok", None) EXCEPT
            !.search_perms = grant_loop(search_perms,
                                 permissions.users_with_search_permissions
                                 \o permissions.users_with_register_permissions,
                                 permissions.base_uri),
            !.register_perms = grant_loop(register_perms,
                                   permissions.users_with_register_permissions,
                                   permissions.base_uri)]

update_permissions(permissions) ==
    IF ~base_uri_exists(permissions.base_uri) THEN Raise("ValidationError")
    ELSE [Outcome("ok", None) EXCEPT
            !.search_perms = grant_loop(search_perms,
                                 permissions.users_with_search_permissions,
                                 permissions.base_uri),
            !.register_perms = grant_loop(register_perms,
                                   permissions.users_with_register_permissions,
                                   permissions.base_uri)]

\* ------------------------------------------------------------------------
\* The descriptive store: the pymongo collection.
\* ------------------------------------------------------------------------

\* A document matches a query when it has every key of the query with the
\* query's value.
matches(doc, query) == \A k \in DOMAIN query : HasKey(doc, k) /\ doc[k] = query[k]

\* The ObjectId the client makes up for a document that has none.
ObjectId(coll) == Len(coll) + 1

\* collection.find_one(query): the first matching document, None if none.
find_one(coll, query) ==
    LET m == {i \in 1..Len(coll) : matches(coll[i], query)}
    IN IF m = {} THEN None ELSE coll[Min(m)]

\* Faulty variant: the matches are returned as stored, _id included.
find_keeping_id(coll, query) == SelectSeq(coll, LAMBDA doc : matches(doc, query))

\* collection.find(query, {"_id": False}): every match, without its _id.
RECURSIVE find(_, _)
find(coll, query) ==
    IF coll = <<>> THEN <<>>
    ELSE (IF matches(Head(coll), query) THEN <<DelKey(Head(coll), "_id")>> ELSE <<>>)
         \o find(Tail(coll), query)

\* collection.insert_one(document): the client adds an _id to the caller's
\* mapping and the store keeps the document.
insert_one(coll, document) ==
    LET doc == IF HasKey(document, "_id") THEN document
               ELSE SetKey(document, "_id", ObjectId(coll))
    IN [collection |-> Append(coll, doc), document |-> doc]

\* Faulty variant: the replacement is merged into the match, as an update would.
find_one_and_replace_merging(coll, query, replacement) ==
    LET m == {i \in 1..Len(coll) : matches(coll[i], query)}
    IN IF m = {} THEN coll
       ELSE [coll EXCEPT ![Min(m)] =
                [k \in DOMAIN coll[Min(m)] \cup DOMAIN replacement |->
                    IF k \in DOMAIN replacement THEN replacement[k] ELSE coll[Min(m)][k]]]

\* collection.find_one_and_replace(query, replacement): the first match keeps
\* its _id and takes the replacement as its whole contents.
find_one_and_replace(coll, query, replacement) ==
    LET m == {i \in 1..Len(coll) : matches(coll[i], query)}
    IN IF m = {} THEN coll
       ELSE [coll EXCEPT ![Min(m)] = SetKey(replacement, "_id", coll[Min(m)]["_id"])]

\* ------------------------------------------------------------------------
\* Register dataset helper functions.
\* ------------------------------------------------------------------------
DATASET_INFO_REQUIRED_KEYS == <<"uuid", "base_uri", "uri", "name", "type", "readme">>

\* Faulty variant: the trailing slash of the base URI is not looked at.
dataset_info_is_valid_any_base_uri(dataset_info) ==
    IF \E i \in 1..Len(DATASET_INFO_REQUIRED_KEYS) :
           ~HasKey(dataset_info, DATASET_INFO_REQUIRED_KEYS[i])
    THEN FALSE
    ELSE IF dataset_info["type"] # "dataset" THEN FALSE
    ELSE IF Len(dataset_info["uuid"]) # 36 THEN FALSE
    ELSE TRUE

dataset_info_is_valid(dataset_info) ==
    IF \E i \in 1..Len(DATASET_INFO_REQUIRED_KEYS) :
           ~HasKey(dataset_info, DATASET_INFO_REQUIRED_KEYS[i])
    THEN FALSE
    ELSE IF dataset_info["type"] # "dataset" THEN FALSE
    ELSE IF Len(dataset_info["uuid"]) # 36 THEN FALSE
    ELSE IF endswith(dataset_info["base_uri"], "/") THEN FALSE
    ELSE TRUE

\* Faulty variant: the rows are filtered on the uuid column.
get_admin_metadata_from_uri_by_uuid(rows, uri) ==
    LET m == {i \in 1..Len(rows) : rows[i].uuid = uri}
    IN IF m = {} THEN None ELSE rows[Min(m)]

\* Dataset.query.filter_by(uri=uri).first(), as a dictionary; None if no row.
get_admin_metadata_from_uri(rows, uri) ==
    LET m == {i \in 1..Len(rows) : rows[i].uri = uri}
    IN IF m = {} THEN None ELSE rows[Min(m)]

\* The Dataset table keys its rows by uri: the store refuses the commit of a
\* second row for a uri.
uri_is_unique(rows, uri) == \A i \in 1..Len(rows) : rows[i].uri # uri

\* register_dataset_admin_metadata: get_base_uri_obj raises ValidationError
\* for a base URI that is not registered; otherwise the new row is added and
\* committed, which the store refuses for a uri that has a row.
register_dataset_admin_metadata(rows, admin_metadata) ==
    IF _get_base_uri_obj(admin_metadata["base_uri"]) = None
    THEN [status |-> "ValidationError", datasets |-> rows]
    ELSE IF ~uri_is_unique(rows, admin_metadata["uri"])
    THEN [status |-> "IntegrityError", datasets |-> rows]
    ELSE [status |-> "ok",
          datasets |-> Append(rows, [uri |-> admin_metadata["uri"],
                                     base_uri |-> admin_metadata["base_uri"],
                                     uuid |-> admin_metadata["uuid"],
                                     name |-> admin_metadata["name"]])]

\* Faulty variant: the document is inserted whatever find_one answered.
descriptive_write_always_inserts(coll, dataset_info, exists) ==
    LET w == insert_one(coll, dataset_info)
    IN [collection |-> w.collection,
        dataset_info |-> DelKey(w.document, "_id"),
        value |-> dataset_info["uuid"]]

\* The write of _register_dataset_descriptive_metadata once find_one has
\* answered: insert when nothing was found, replace otherwise; the _id the
\* client added to dataset_info is removed again.
descriptive_write(coll, dataset_info, exists) ==
    LET query == [uuid |-> dataset_info["uuid"], uri |-> dataset_info["uri"]]
        w == IF exists = None
             THEN insert_one(coll, dataset_info)
             ELSE [collection |-> find_one_and_replace(coll, query, dataset_info),
                   document |-> dataset_info]
    IN [collection |-> w.collection,
        dataset_info |-> IF HasKey(w.document, "_id") THEN DelKey(w.document, "_id")
                         ELSE w.document,
        value |-> dataset_info["uuid"]]

_register_dataset_descriptive_metadata(coll, dataset_info) ==
    IF ~dataset_info_is_valid(dataset_info)
    THEN [collection |-> coll, dataset_info |-> dataset_info, value |-> None]
    ELSE LET query == [uuid |-> dataset_info["uuid"], uri |-> dataset_info["uri"]]
         IN descriptive_write(coll, dataset_info, find_one(coll, query))

\* register_dataset_descriptive_metadata: the base URI is looked up again
\* before the collection is written.
register_dataset_descriptive_metadata(coll, dataset_info) ==
    IF _get_base_uri_obj(dataset_info["base_uri"]) = None
    THEN [status |-> "ValidationError", collection |-> coll, dataset_info |-> dataset_info]
    ELSE LET d == _register_dataset_descriptive_metadata(coll, dataset_info)
         IN [status |-> "ok", collection |-> d.collection, dataset_info |-> d.dataset_info]

\* Faulty variant: an admin row that exists is refreshed from the payload.
register_dataset_admin_refreshing(dataset_info) ==
    IF ~dataset_info_is_valid(dataset_info)
    THEN [status |-> "ValidationError", datasets |-> datasets]
    ELSE IF ~base_uri_exists(dataset_info["base_uri"])
    THEN [status |-> "ValidationError", datasets |-> datasets]
    ELSE LET m == {i \in 1..Len(datasets) : datasets[i].uri = dataset_info["uri"]}
             fresh == register_dataset_admin_metadata(<<>>, dataset_info).datasets[1]
         IN IF m = {}
            THEN register_dataset_admin_metadata(datasets, dataset_info)
            ELSE [status |-> "ok", datasets |-> [datasets EXCEPT ![Min(m)] = fresh]]

\* Faulty variant: the admin row is looked up by the uuid of the payload.
register_dataset_admin_by_uuid(dataset_info) ==
    IF ~dataset_info_is_valid(dataset_info)
    THEN [status |-> "ValidationError", datasets |-> datasets]
    ELSE IF ~base_uri_exists(dataset_info["base_uri"])
    THEN [status |-> "ValidationError", datasets |-> datasets]
    ELSE IF \A i \in 1..Len(datasets) : datasets[i].uuid # dataset_info["uuid"]
    THEN register_dataset_admin_metadata(datasets, dataset_info)
    ELSE [status |-> "ok", datasets |-> datasets]

\* register_dataset up to the call of register_dataset_descriptive_metadata:
\* both validations, and the admin row, committed, when the uri has none.
register_dataset_admin(dataset_info) ==
    IF ~dataset_info_is_valid(dataset_info)
    THEN [status |-> "ValidationError", datasets |-> datasets]
    ELSE IF ~base_uri_exists(dataset_info["base_uri"])
    THEN [status |-> "ValidationError", datasets |-> datasets]
    ELSE IF get_admin_metadata_from_uri(datasets, dataset_info["uri"]) = None
    THEN register_dataset_admin_metadata(datasets, dataset_info)
    ELSE [status |-> "ok", datasets |-> datasets]

\* register_dataset as one call: the admin part, then the descriptive
\* document, then the uri as the return value.
register_dataset(dataset_info) ==
    LET a == register_dataset_admin(dataset_info)
    IN IF a.status # "ok" THEN Raise(a.status)
       ELSE LET d == register_dataset_descriptive_metadata(collection, dataset_info)
            IN [Outcome(d.status, IF d.status = "ok" THEN dataset_info["uri"] ELSE None)
                   EXCEPT !.datasets = a.datasets, !.collection = d.collection]

\* The caller's dataset_info mapping after register_dataset: the descriptive
\* write is the one step that touches it.
register_dataset_mapping(dataset_info) ==
    IF ~dataset_info_is_valid(dataset_info) THEN dataset_info
    ELSE IF ~base_uri_exists(dataset_info["base_uri"]) THEN dataset_info
    ELSE register_dataset_descriptive_metadata(collection, dataset_info).dataset_info

\* ------------------------------------------------------------------------
\* Dataset list/search/lookup helper functions.
\* ------------------------------------------------------------------------

\* user.search_base_uris: the base URIs the user has a search edge to.
search_base_uris(username) == {b \in base_uris : <<username, b>> \in search_perms}

\* base_uri.datasets, each as a dictionary: the rows owned by the base URI.
base_uri_datasets(base_uri) == SelectSeq(datasets, LAMBDA ds : ds.base_uri = base_uri)

\* list_datasets_by_user once the user is found; order is the order in which
\* the relationship hands out the base URIs.
RECURSIVE list_datasets_loop(_)
list_datasets_loop(order) ==
    IF order = <<>> THEN <<>>
    ELSE base_uri_datasets(Head(order)) \o list_datasets_loop(Tail(order))

list_datasets_by_user(username, order) ==
    IF _get_user_obj(username) = None THEN Raise("AuthenticationError")
    ELSE Outcome("ok", list_datasets_loop(order))

\* query.copy()
dict_copy(m) == [k \in DOMAIN m |-> m[k]]

\* Faulty variant: a base_uri that the query names itself is kept.
search_datasets_step_keeping_base_uri(acc, base_uri) ==
    LET copy == dict_copy(acc.query)
        base_uri_query == IF HasKey(copy, "base_uri") THEN copy
                          ELSE SetKey(copy, "base_uri", base_uri)
    IN [query |-> acc.query,
        datasets |-> acc.datasets \o find(collection, base_uri_query)]

\* One round of the loop of search_datasets_by_user: acc.query is the caller's
\* mapping, acc.datasets the list built so far.
search_datasets_step(acc, base_uri) ==
    LET base_uri_query == SetKey(dict_copy(acc.query), "base_uri", base_uri)
    IN [query |-> acc.query,
        datasets |-> acc.datasets \o find(collection, base_uri_query)]

RECURSIVE search_datasets_loop(_, _)
search_datasets_loop(acc, order) ==
    IF order = <<>> THEN acc
    ELSE search_datasets_loop(search_datasets_step(acc, Head(order)), Tail(order))

\* Faulty variant: a username without a row is answered like a user without
\* search edges.
search_datasets_by_user_unchecked(username, query, order) ==
    Outcome("ok", search_datasets_loop([query |-> query, datasets |-> <<>>], order))

\* The value is the list returned and the caller's query mapping after the call.
search_datasets_by_user(username, query, order) ==
    IF _get_user_obj(username) = None THEN Raise("AuthenticationError")
    ELSE Outcome("ok", search_datasets_loop([query |-> query, datasets |-> <<>>], order))

RECURSIVE Repeat(_, _)
Repeat(x, n) == IF n = 0 THEN <<>> ELSE <<x>> \o Repeat(x, n - 1)

\* Faulty variant: the search edge of any user to the base URI lets the row through.
lookup_join_any_user(ds, username, uuid) ==
    {bu \in base_uris \X users :
        /\ ds.uuid = uuid
        /\ bu[2].username = username
        /\ bu[1] = ds.base_uri
        /\ \E u \in users : \E b \in search_base_uris(u.username) : b = ds.base_uri}

\* The join of lookup_datasets_by_user_and_uuid for the Dataset row ds: the
\* (BaseURI, User) pairs that pass the four filters together with it.
lookup_join(ds, username, uuid) ==
    {bu \in base_uris \X users :
        /\ ds.uuid = uuid
        /\ bu[2].username = username
        /\ bu[1] = ds.base_uri
        /\ \E b \in search_base_uris(bu[2].username) : b = ds.base_uri}

RECURSIVE lookup_rows(_, _, _)
lookup_rows(rows, username, uuid) ==
    IF rows = <<>> THEN <<>>
    ELSE Repeat(Head(rows), Cardinality(lookup_join(Head(rows), username, uuid)))
         \o lookup_rows(Tail(rows), username, uuid)

lookup_datasets_by_user_and_uuid(username, uuid) ==
    IF _get_user_obj(username) = None THEN Raise("AuthenticationError")
    ELSE Outcome("ok", lookup_rows(datasets, username, uuid))

\* ------------------------------------------------------------------------
\* Inputs.
\* ------------------------------------------------------------------------
UserEntries ==
    {[username |-> u] : u \in Usernames}
    \cup {[username |-> u, is_admin |-> a] : u \in Usernames, a \in BOOLEAN}

UserLists == SeqsUpTo(UserEntries, MaxUserListLen)

\* Lists whose entries leave is_admin out.
PlainUserLists == {l \in UserLists : \A i \in 1..Len(l) : ~HasKey(l[i], "is_admin")}

\* The base URIs in canonical form.
CanonicalBaseUris == {b \in BaseUris : ~endswith(b, "/")}

\* The username lists of a permission update: every choice of usernames in
\* every order.
PermLists == UNION {Orders(S) : S \in SUBSET Usernames}

PermissionSpecs ==
    {[base_uri |-> b, users_with_search_permissions |-> s,
      users_with_register_permissions |-> r] :
        b \in CanonicalBaseUris, s \in PermLists, r \in PermLists}

Payload(uuid, base_uri, uri, name) ==
    [uuid |-> uuid, base_uri |-> base_uri, uri |-> uri, name |-> name,
     type |-> "dataset", readme |-> "r"]

\* Payloads that pass dataset_info_is_valid: the ones named "n1" carry an
\* extra field, the ones named "n2" do not.
PlainPayloads ==
    {Payload(uuid, b, uri, name) :
        uuid \in Uuids, b \in CanonicalBaseUris, uri \in Uris, name \in Names}

ValidPayloads ==
    {IF p["name"] = "n1" THEN SetKey(p, "creator", "c") ELSE p : p \in PlainPayloads}

\* A payload with one defect each: a required key missing, a protodataset, a
\* short uuid, a trailing slash on the base URI.
DefectSeeds ==
    {p \in PlainPayloads : p["uuid"] = Uuid1 /\ p["name"] = "n2" /\ p["base_uri"] = "s3://x"}

InvalidPayloads ==
    {DelKey(p, DATASET_INFO_REQUIRED_KEYS[i]) :
        p \in DefectSeeds, i \in 1..Len(DATASET_INFO_REQUIRED_KEYS)}
    \cup {[p EXCEPT !["type"] = "protodataset"] : p \in DefectSeeds}
    \cup {[p EXCEPT !["uuid"] = ShortUuid] : p \in DefectSeeds}
    \cup {[p EXCEPT !["base_uri"] = p["base_uri"] \o "/"] : p \in DefectSeeds}

Payloads == ValidPayloads \cup InvalidPayloads

\* The inputs of the specification of all calls: one user per registration,
\* one username per permission list, datasets whose uri lies under their base
\* URI and whose name goes with their uuid.
SingleUserLists == {l \in PlainUserLists : Len(l) = 1}

SinglePermissionSpecs ==
    {p \in PermissionSpecs :
        /\ Len(p.users_with_search_permissions) <= 1
        /\ Len(p.users_with_register_permissions) <= 1}

UriUnder(base_uri) == IF base_uri = "s3://x" THEN "s3://x/ds1" ELSE "s3://y/ds2"

NameOf(uuid) == IF uuid = Uuid1 THEN "n1" ELSE "n2"

HomePayloads ==
    {p \in ValidPayloads :
        p["uri"] = UriUnder(p["base_uri"]) /\ p["name"] = NameOf(p["uuid"])}

\* Search queries, some naming a base URI themselves.
Queries ==
    {<<>>, [name |-> "n1"], [base_uri |-> "s3://y"], [base_uri |-> "s3://x", uuid |-> Uuid1]}

\* ------------------------------------------------------------------------
\* The calls, each as one action.
\* ------------------------------------------------------------------------
\* The request threads that run register_dataset side by side.
Procs == {1, 2}

\* A thread that serves no request: where it is in register_dataset, the
\* payload, what find_one answered, whether the call repeats one that failed
\* on a store conflict, how the call ended, and the record of the call.
Idle ==
    [pc |-> "idle", dataset_info |-> None, exists |-> None, retried |-> FALSE,
     status |-> "none", value |-> None, call |-> None]

Init ==
    /\ users = {}
    /\ base_uris = {}
    /\ search_perms = {}
    /\ register_perms = {}
    /\ datasets = <<>>
    /\ collection = <<>>
    /\ call = [op |-> "none"]
    /\ ret = [status |-> "none", value |-> None]
    /\ last_registered = <<>>
    /\ granted_search = {}
    /\ granted_register = {}
    /\ nreg = 0
    /\ nperm = 0
    /\ proc = [p \in Procs |-> Idle]

Range(seq) == {seq[i] : i \in 1..Len(seq)}

RegisterUsers(lists) ==
    \E list \in lists :
        /\ users' = register_users(list)
        /\ call' = [op |-> "register_users", users |-> list]
        /\ ret' = [status |-> "ok", value |-> None]
        /\ UNCHANGED <<base_uris, search_perms, register_perms, datasets, collection,
                       histVars, nreg, nperm, proc>>

RegisterBaseUri(uris) ==
    \E b \in uris :
        /\ call' = [op |-> "register_base_uri", base_uri |-> b]
        /\ IF base_uri_is_unique(b)
           THEN /\ base_uris' = register_base_uri(b)
                /\ ret' = [status |-> "ok", value |-> None]
           ELSE /\ base_uris' = base_uris
                /\ ret' = [status |-> "IntegrityError", value |-> None]
        /\ UNCHANGED <<users, search_perms, register_perms, datasets, collection,
                       histVars, nreg, nperm, proc>>

UpdatePermissions(specs) ==
    \E permissions \in specs :
        LET r == update_permissions(permissions)
            existing(list) == {u \in Range(list) : user_exists(u)}
        IN /\ nperm < MaxPermissionUpdates
           /\ nperm' = nperm + 1
           /\ search_perms' = r.search_perms
           /\ register_perms' = r.register_perms
           /\ call' = [op |-> "update_permissions", permissions |-> permissions]
           /\ ret' = [status |-> r.status, value |-> r.value]
           /\ granted_search' =
                 IF r.status = "ok"
                 THEN granted_search \cup
                      (existing(permissions.users_with_search_permissions)
                       \X {permissions.base_uri})
                 ELSE granted_search
           /\ granted_register' =
                 IF r.status = "ok"
                 THEN granted_register \cup
                      (existing(permissions.users_with_register_permissions)
                       \X {permissions.base_uri})
                 ELSE granted_register
           /\ UNCHANGED <<users, base_uris, datasets, collection, last_registered, nreg,
                          proc>>

\* What the stores held for the payload's uri and (uuid, uri) when the call
\* was made (recorded with the call, for the properties below).
AdminBefore(dataset_info) ==
    IF HasKey(dataset_info, "uri")
    THEN get_admin_metadata_from_uri(datasets, dataset_info["uri"])
    ELSE None

DocBefore(dataset_info) ==
    IF HasKey(dataset_info, "uri") /\ HasKey(dataset_info, "uuid")
    THEN find_one(collection, [uuid |-> dataset_info["uuid"], uri |-> dataset_info["uri"]])
    ELSE None

\* register_dataset by the one caller of the sequential specifications, up to
\* the commit of the admin row: a call that fails validation ends here, any
\* other goes on to the descriptive store, and the requests of other callers
\* see the stores as they are in between.
RegisterDataset(payloads) ==
    \E dataset_info \in payloads :
        LET a == register_dataset_admin(dataset_info)
            repeats == /\ call.op = "register_dataset"
                       /\ ret.status = "ok"
                       /\ call.dataset_info = dataset_info
            c == [op |-> "register_dataset", dataset_info |-> dataset_info,
                  admin_before |-> AdminBefore(dataset_info),
                  doc_before |-> DocBefore(dataset_info),
                  dataset_info_after |-> dataset_info,
                  repeats |-> repeats,
                  repeats_unseen |-> repeats /\ call.admin_before = None]
        IN /\ proc[1].pc = "idle"
           /\ nreg < MaxRegistrations
           /\ nreg' = nreg + 1
           /\ datasets' = a.datasets
           /\ call' = c
           /\ IF a.status = "ok"
              THEN /\ ret' = [status |-> "running", value |-> None]
                   /\ proc' = [proc EXCEPT ![1] =
                         [Idle EXCEPT !.pc = "descriptive",
                                      !.dataset_info = dataset_info, !.call = c]]
              ELSE /\ ret' = [status |-> a.status, value |-> None]
                   /\ proc' = proc
           /\ UNCHANGED <<users, base_uris, search_perms, register_perms, collection,
                          histVars, nperm>>

\* The rest of the call: register_dataset_descriptive_metadata and the return
\* of the uri.
RegisterDatasetDescriptive ==
    LET dataset_info == proc[1].dataset_info
        d == register_dataset_descriptive_metadata(collection, dataset_info)
    IN /\ proc[1].pc = "descriptive"
       /\ collection' = d.collection
       /\ call' = [proc[1].call EXCEPT
                     !.dataset_info_after = register_dataset_mapping(dataset_info)]
       /\ ret' = [status |-> d.status,
                  value |-> IF d.status = "ok" THEN dataset_info["uri"] ELSE None]
       /\ last_registered' =
             IF d.status = "ok"
             THEN SetKey(last_registered,
                         <<dataset_info["uuid"], dataset_info["uri"]>>, dataset_info)
             ELSE last_registered
       /\ proc' = [proc EXCEPT ![1] = Idle]
       /\ UNCHANGED <<users, base_uris, search_perms, register_perms, datasets,
                      granted_search, granted_register, nreg, nperm>>

ListDatasets ==
    \E username \in Usernames : \E order \in Orders(search_base_uris(username)) :
        LET r == list_datasets_by_user(username, order)
        IN /\ call' = [op |-> "list_datasets_by_user", username |-> username]
           /\ ret' = [status |-> r.status, value |-> r.value]
           /\ UNCHANGED <<storeVars, histVars, nreg, nperm, proc>>

SearchDatasets(queries) ==
    \E username \in Usernames : \E query \in queries :
    \E order \in Orders(search_base_uris(username)) :
        LET r == search_datasets_by_user(username, query, order)
        IN /\ call' = [op |-> "search_datasets_by_user", username |-> username,
                       query |-> query]
           /\ ret' = [status |-> r.status, value |-> r.value]
           /\ UNCHANGED <<storeVars, histVars, nreg, nperm, proc>>

LookupDatasets ==
    \E username \in Usernames : \E uuid \in Uuids :
        LET r == lookup_datasets_by_user_and_uuid(username, uuid)
        IN /\ call' = [op |-> "lookup_datasets_by_user_and_uuid", username |-> username,
                       uuid |-> uuid]
           /\ ret' = [status |-> r.status, value |-> r.value]
           /\ UNCHANGED <<storeVars, histVars, nreg, nperm, proc>>

\* Registration alone: base URIs and datasets.
NextRegistration ==
    \/ RegisterBaseUri(BaseUris)
    \/ RegisterDataset(Payloads)
    \/ RegisterDatasetDescriptive

SpecRegistration == Init /\ [][NextRegistration]_vars

\* Users and permissions alone.
NextPermissions ==
    \/ RegisterUsers(PlainUserLists)
    \/ RegisterBaseUri(CanonicalBaseUris)
    \/ UpdatePermissions(PermissionSpecs)

SpecPermissions == Init /\ [][NextPermissions]_vars

\* Users with and without is_admin, next to single-user permission updates of
\* one base URI.
NextUsers ==
    \/ RegisterUsers(UserLists)
    \/ RegisterBaseUri({"s3://x"})
    \/ UpdatePermissions({p \in SinglePermissionSpecs : p.base_uri = "s3://x"})

SpecUsers == Init /\ [][NextUsers]_vars

\* ------------------------------------------------------------------------
\* register_dataset run by concurrent requests: one action per store access.
\* ------------------------------------------------------------------------

\* Payloads of the concurrent calls: one uri under one base URI.
ConcurrentPayloads ==
    {p \in ValidPayloads : p["base_uri"] = "s3://x" /\ p["uri"] = "s3://x/ds1"}

\* The thread takes up a call and runs the two validations.
StartCall(p, dataset_info, retried) ==
    /\ nreg < MaxRegistrations
    /\ nreg' = nreg + 1
    /\ proc' = [proc EXCEPT ![p] =
          IF ~dataset_info_is_valid(dataset_info)
             \/ ~base_uri_exists(dataset_info["base_uri"])
          THEN [Idle EXCEPT !.pc = "done", !.dataset_info = dataset_info,
                            !.retried = retried, !.status = "ValidationError"]
          ELSE [Idle EXCEPT !.pc = "admin_lookup", !.dataset_info = dataset_info,
                            !.retried = retried]]
    /\ UNCHANGED <<storeVars, call, ret, histVars, nperm>>

\* A request arrives at a thread that serves none.
Begin(p) ==
    /\ proc[p].pc \in {"idle", "done"}
    /\ \E dataset_info \in ConcurrentPayloads : StartCall(p, dataset_info, FALSE)

\* The caller of a request that failed on a store conflict sends it again.
Retry(p) ==
    /\ proc[p].pc = "done"
    /\ proc[p].status = "IntegrityError"
    /\ StartCall(p, proc[p].dataset_info, TRUE)

\* Faulty variant: the admin row is inserted without looking the uri up.
AdminLookup_always_inserting(p) ==
    /\ proc[p].pc = "admin_lookup"
    /\ proc' = [proc EXCEPT ![p].pc = "admin_insert"]
    /\ UNCHANGED <<storeVars, call, ret, histVars, nreg, nperm>>

\* get_admin_metadata_from_uri(dataset_info["uri"]) is None
AdminLookup(p) ==
    /\ proc[p].pc = "admin_lookup"
    /\ proc' = [proc EXCEPT ![p].pc =
          IF get_admin_metadata_from_uri(datasets, proc[p].dataset_info["uri"]) = None
          THEN "admin_insert" ELSE "find_one"]
    /\ UNCHANGED <<storeVars, call, ret, histVars, nreg, nperm>>

\* register_dataset_admin_metadata: the commit fails on a uri that has a row.
AdminInsert(p) ==
    /\ proc[p].pc = "admin_insert"
    /\ LET a == register_dataset_admin_metadata(datasets, proc[p].dataset_info)
       IN /\ datasets' = a.datasets
          /\ proc' = IF a.status = "ok"
                     THEN [proc EXCEPT ![p].pc = "find_one"]
                     ELSE [proc EXCEPT ![p].pc = "done", ![p].status = a.status]
    /\ UNCHANGED <<users, base_uris, search_perms, register_perms, collection,
                   call, ret, histVars, nreg, nperm>>

\* register_dataset_descriptive_metadata up to the answer of find_one.
FindOne(p) ==
    /\ proc[p].pc = "find_one"
    /\ proc' = [proc EXCEPT
          ![p].pc = "write",
          ![p].exists = find_one(collection,
                            [uuid |-> proc[p].dataset_info["uuid"],
                             uri |-> proc[p].dataset_info["uri"]])]
    /\ UNCHANGED <<storeVars, call, ret, histVars, nreg, nperm>>

\* insert_one or find_one_and_replace, and the return of the uri.
Write(p) ==
    /\ proc[p].pc = "write"
    /\ collection' = descriptive_write(collection, proc[p].dataset_info,
                                       proc[p].exists).collection
    /\ proc' = [proc EXCEPT ![p].pc = "done", ![p].status = "ok",
                            ![p].value = proc[p].dataset_info["uri"]]
    /\ UNCHANGED <<users, base_uris, search_perms, register_perms, datasets,
                   call, ret, histVars, nreg, nperm>>

NextConcurrent ==
    \/ RegisterBaseUri(CanonicalBaseUris)
    \/ \E p \in Procs :
          Begin(p) \/ Retry(p) \/ AdminLookup(p) \/ AdminInsert(p) \/ FindOne(p) \/ Write(p)

SpecConcurrent == Init /\ [][NextConcurrent]_vars

\* ------------------------------------------------------------------------
\* register_dataset against a descriptive store that can fail: one caller,
\* who sends a request again when the descriptive write raised.
\* ------------------------------------------------------------------------

\* The collection access of register_dataset_descriptive_metadata raises (the
\* store is unreachable): nothing is written, the exception ends the call.
\* The store fails only while the caller can still send the request again.
WriteFails(p) ==
    /\ proc[p].pc \in {"find_one", "write"}
    /\ nreg < MaxRegistrations
    /\ proc' = [proc EXCEPT ![p].pc = "done", ![p].status = "PyMongoError"]
    /\ UNCHANGED <<storeVars, call, ret, histVars, nreg, nperm>>

\* The caller sends the request whose descriptive write raised again.
RetryWrite(p) ==
    /\ proc[p].pc = "done"
    /\ proc[p].status = "PyMongoError"
    /\ StartCall(p, proc[p].dataset_info, TRUE)

\* A new request, once the one before has succeeded.
BeginNext(p) ==
    /\ proc[p].status # "PyMongoError"
    /\ Begin(p)

\* The steps of the one request thread.
ThreadStep(p) == AdminLookup(p) \/ AdminInsert(p) \/ FindOne(p) \/ Write(p)

NextFaulty ==
    \/ RegisterBaseUri({"s3://x"})
    \/ BeginNext(1)
    \/ RetryWrite(1)
    \/ ThreadStep(1)
    \/ WriteFails(1)

\* The thread runs a call to its end and the caller of a failed call does
\* retry.
SpecFaulty ==
    /\ Init
    /\ [][NextFaulty]_vars
    /\ WF_vars(ThreadStep(1))
    /\ WF_vars(RetryWrite(1))

\* All calls: users, base URIs, permissions, registrations and the three
\* queries.  MaxWrites bounds the permission updates and registrations together.
Next ==
    \/ RegisterUsers(SingleUserLists)
    \/ RegisterBaseUri(CanonicalBaseUris)
    \/ (nreg + nperm < MaxWrites /\ UpdatePermissions(SinglePermissionSpecs))
    \/ (nreg + nperm < MaxWrites /\ RegisterDataset(HomePayloads))
    \/ RegisterDatasetDescriptive
    \/ ListDatasets
    \/ SearchDatasets(Queries)
    \/ LookupDatasets

Spec == Init /\ [][Next]_vars

\* ------------------------------------------------------------------------
\* Properties of registration (SpecRegistration).
\* ------------------------------------------------------------------------
AdminRowsWithUri(rows, uri) == {i \in 1..Len(rows) : rows[i].uri = uri}

DocsWithKey(coll, uuid, uri) ==
    {i \in 1..Len(coll) : coll[i]["uuid"] = uuid /\ coll[i]["uri"] = uri}

AdminRowOf(p) ==
    [uri |-> p["uri"], base_uri |-> p["base_uri"], uuid |-> p["uuid"], name |-> p["name"]]

\* This step belongs to a register_dataset call.
RegisterDatasetCall == call'.op = "register_dataset"

\* This step starts a register_dataset call: it ends the call when the
\* validation fails and commits the admin row of an unseen uri otherwise.
RegisterDatasetBegins == RegisterDatasetCall /\ proc[1].pc = "idle"

\* This step ends a register_dataset call.
RegisterDatasetStep == RegisterDatasetCall /\ ret'.status # "running"

\* No register_dataset call is between the admin store and the descriptive
\* store.
BetweenCalls == proc[1].pc # "descriptive"

\* This step ends a call that registers the payload which the call before it
\* registered.
SameTwice == RegisterDatasetStep /\ call'.repeats

\* After the step: success with the payload's uri, one admin row for the uri,
\* one document for (uuid, uri) holding the payload, and (when asked for) the
\* admin row holding the payload's values.
TwiceOutcome(p, admin_matches) ==
    /\ ret'.status = "ok"
    /\ ret'.value = p["uri"]
    /\ Cardinality(AdminRowsWithUri(datasets', p["uri"])) = 1
    /\ Cardinality(DocsWithKey(collection', p["uuid"], p["uri"])) = 1
    /\ \A i \in DocsWithKey(collection', p["uuid"], p["uri"]) :
           DelKey(collection'[i], "_id") = p
    /\ admin_matches =>
           \A i \in AdminRowsWithUri(datasets', p["uri"]) : datasets'[i] = AdminRowOf(p)

\* C3 as stated: registering the same valid payload twice in sequence yields
\* exactly one admin record with that uri and exactly one document with that
\* (uuid, uri), both matching the payload, and the second call succeeds with
\* the same uri.
C3_TwiceMatchesPayload == [][SameTwice => TwiceOutcome(call'.dataset_info, TRUE)]_vars

\* C3 amended: as above, but the admin record is claimed to match the payload
\* only when the uri had no admin record before the first of the two calls.
C3_TwiceIsIdempotent ==
    [][SameTwice => TwiceOutcome(call'.dataset_info, call'.repeats_unseen)]_vars

C3_Witness ==
    /\ call.op = "register_dataset"
    /\ call.repeats
    /\ ret.status = "ok"
    /\ nreg = 2
    /\ Len(datasets) = 1
    /\ Len(collection) = 1

\* The payload has one of the defects that must make registration fail.
Defective(p) ==
    \/ \E k \in {"uuid", "base_uri", "uri", "name", "type", "readme"} : k \notin DOMAIN p
    \/ p["type"] # "dataset"
    \/ Len(p["uuid"]) # 36
    \/ \E stem \in BaseUris : p["base_uri"] = stem \o "/"
    \/ p["base_uri"] \notin base_uris

\* C4: register_dataset fails with ValidationError and leaves the admin store
\* and the descriptive store unchanged when the payload lacks a required key,
\* is not of type "dataset", has a uuid not 36 long, has a base_uri ending in
\* '/', or names a base URI that is not registered.
C4_InvalidRegistrationWritesNothing ==
    [][(RegisterDatasetCall /\ Defective(call'.dataset_info))
        => /\ ret'.status = "ValidationError"
           /\ datasets' = datasets
           /\ collection' = collection]_vars

\* A payload whose base_uri ends in '/' was refused although both the base
\* URI with and without the slash are registered and the stores hold data.
C4_Witness ==
    /\ call.op = "register_dataset"
    /\ HasKey(call.dataset_info, "base_uri")
    /\ call.dataset_info["base_uri"] = "s3://x/"
    /\ {"s3://x", "s3://x/"} \subseteq base_uris
    /\ ret.status = "ValidationError"
    /\ Len(datasets) > 0
    /\ Len(collection) > 0

\* C5: the admin store holds at most one admin record per uri; the sequential
\* calls keep it so by looking the uri up, none is refused by the store.
C5_OneAdminRecordPerUri ==
    /\ \A i, j \in 1..Len(datasets) : datasets[i].uri = datasets[j].uri => i = j
    /\ call.op = "register_dataset" => ret.status # "IntegrityError"

\* Three successful registrations, one of them for a uri registered before
\* with another uuid.
C5_Witness ==
    /\ nreg = 3
    /\ Len(datasets) = 2
    /\ Len(collection) = 3

\* C6: the descriptive store holds at most one document per (uuid, uri), and
\* that document is the payload of the most recent successful registration
\* with that (uuid, uri).
C6_OneDocumentPerKeyLastWriteWins ==
    /\ \A i, j \in 1..Len(collection) :
           (collection[i]["uuid"] = collection[j]["uuid"]
            /\ collection[i]["uri"] = collection[j]["uri"]) => i = j
    /\ \A i \in 1..Len(collection) :
           /\ <<collection[i]["uuid"], collection[i]["uri"]>> \in DOMAIN last_registered
           /\ DelKey(collection[i], "_id")
                = last_registered[<<collection[i]["uuid"], collection[i]["uri"]>>]
    /\ \A key \in DOMAIN last_registered : DocsWithKey(collection, key[1], key[2]) # {}

\* A registration replaced a document that had a field the new payload lacks.
C6_Witness ==
    /\ call.op = "register_dataset"
    /\ ret.status = "ok"
    /\ call.doc_before # None
    /\ HasKey(call.doc_before, "creator")
    /\ ~HasKey(call.dataset_info, "creator")
    /\ call.doc_before["name"] # call.dataset_info["name"]

\* C7: a register_dataset call for a uri that has an admin record leaves the
\* Dataset table as it is, whatever uuid, name and base_uri the payload has.
C7_AdminRecordImmutable ==
    [][(/\ RegisterDatasetCall
        /\ HasKey(call'.dataset_info, "uri")
        /\ AdminRowsWithUri(datasets, call'.dataset_info["uri"]) # {})
        => datasets' = datasets]_vars

\* A successful registration whose payload differs from the admin record of
\* its uri in uuid, name and base URI; the document was written.
C7_Witness ==
    /\ call.op = "register_dataset"
    /\ ret.status = "ok"
    /\ call.admin_before # None
    /\ call.admin_before.uuid # call.dataset_info["uuid"]
    /\ call.admin_before.name # call.dataset_info["name"]
    /\ call.admin_before.base_uri # call.dataset_info["base_uri"]
    /\ get_admin_metadata_from_uri(datasets, call.dataset_info["uri"]) = call.admin_before
    /\ DocsWithKey(collection, call.dataset_info["uuid"], call.dataset_info["uri"]) # {}
    /\ call.doc_before = None

\* C15 as stated: two admin records that carry the same uuid have the same
\* uri.
C15_SameUuidSameUri ==
    \A i, j \in 1..Len(datasets) : datasets[i].uuid = datasets[j].uuid
                                     => datasets[i].uri = datasets[j].uri

\* C15 amended: two different admin records that carry the same uuid have
\* different uris, and a registration for a uri without admin record adds the
\* record of the payload, also when the payload's uuid is in the admin store
\* under another uri.
C15_SameUuidOncePerUri ==
    /\ [](\A i, j \in 1..Len(datasets) :
             (i # j /\ datasets[i].uuid = datasets[j].uuid)
             => datasets[i].uri # datasets[j].uri)
    /\ [][(/\ RegisterDatasetBegins
           /\ ~Defective(call'.dataset_info)
           /\ AdminRowsWithUri(datasets, call'.dataset_info["uri"]) = {})
          => /\ ret'.status = "running"
             /\ datasets' = Append(datasets, AdminRowOf(call'.dataset_info))]_vars

\* One uuid was registered under two uris: the admin store holds a record for
\* each, the descriptive store a document for each.
C15_Witness ==
    /\ call.op = "register_dataset"
    /\ ret.status = "ok"
    /\ call.admin_before = None
    /\ \E i, j \in 1..Len(datasets) :
          /\ datasets[i].uuid = datasets[j].uuid
          /\ datasets[i].uri # datasets[j].uri
          /\ datasets[j] = AdminRowOf(call.dataset_info)
          /\ DocsWithKey(collection, datasets[i].uuid, datasets[i].uri) # {}
          /\ DocsWithKey(collection, datasets[j].uuid, datasets[j].uri) # {}

\* ------------------------------------------------------------------------
\* Properties of permissions (SpecPermissions).
\* ------------------------------------------------------------------------

\* The rows of the User table with the username.
RowsOfUser(us, username) == {u \in us : u.username = username}

\* This step is an update_permissions call.
UpdatePermissionsStep == call'.op = "update_permissions" /\ nperm' = nperm + 1

\* C8: update_permissions is additive only: the search edges and the register
\* edges are the union of all grants made to existing users, no call removes
\* an edge granted earlier, and repeating a call changes nothing.
C8_PermissionsAdditive ==
    /\ [](search_perms = granted_search /\ register_perms = granted_register)
    /\ [][search_perms \subseteq search_perms'
          /\ register_perms \subseteq register_perms']_vars
    /\ [][(/\ call.op = "update_permissions"
           /\ ret.status = "ok"
           /\ UpdatePermissionsStep
           /\ call'.permissions = call.permissions)
          => (search_perms' = search_perms /\ register_perms' = register_perms)]_vars

\* After a second update of a base URI, a user the call does not mention still
\* has the search edge and the register edge granted by the first, next to the
\* edges the second call added for another user.
C8_Witness ==
    /\ call.op = "update_permissions"
    /\ ret.status = "ok"
    /\ nperm = 2
    /\ \E u, v \in Usernames :
          LET b == call.permissions.base_uri
              mentioned == Range(call.permissions.users_with_search_permissions)
                           \cup Range(call.permissions.users_with_register_permissions)
          IN /\ u \notin mentioned
             /\ v \in Range(call.permissions.users_with_search_permissions)
             /\ {<<u, b>>, <<v, b>>} \subseteq search_perms
             /\ <<u, b>> \in register_perms

\* The usernames of the list that have a row in the User table.
ExistingOf(list) == {u \in Range(list) : RowsOfUser(users, u) # {}}

\* C12: update_permissions on a registered base URI adds the search or
\* register edge for every listed username that exists, skips every listed
\* username that does not exist without raising and without creating the
\* user, and adds nothing else; on a base URI that is not registered it fails
\* with ValidationError and changes no edge.
C12_UpdatePermissionsSkipsUnknownUsers ==
    [][UpdatePermissionsStep =>
        LET p == call'.permissions
            b == p.base_uri
        IN /\ users' = users
           /\ base_uris' = base_uris
           /\ IF b \in base_uris
              THEN /\ ret'.status = "ok"
                   /\ search_perms' = search_perms
                         \cup (ExistingOf(p.users_with_search_permissions) \X {b})
                   /\ register_perms' = register_perms
                         \cup (ExistingOf(p.users_with_register_permissions) \X {b})
              ELSE /\ ret'.status = "ValidationError"
                   /\ search_perms' = search_perms
                   /\ register_perms' = register_perms]_vars

\* A successful update listed an existing user and a user that does not exist
\* under both permissions: the first has both edges, the second has no row and
\* no edge, and the other base URI is not registered.
C12_Witness ==
    /\ call.op = "update_permissions"
    /\ ret.status = "ok"
    /\ \E u, v \in Usernames :
          LET b == call.permissions.base_uri
          IN /\ Range(call.permissions.users_with_search_permissions) = {u, v}
             /\ Range(call.permissions.users_with_register_permissions) = {u, v}
             /\ RowsOfUser(users, u) # {}
             /\ RowsOfUser(users, v) = {}
             /\ <<u, b>> \in search_perms \cap register_perms
             /\ \A e \in search_perms \cup register_perms : e[1] # v
             /\ base_uris = {b}

\* ------------------------------------------------------------------------
\* Properties of user registration (SpecUsers).
\* ------------------------------------------------------------------------

\* This step is a register_users call.
RegisterUsersStep == call'.op = "register_users"

\* The is_admin value of the first entry of the list that names the user.
FirstEntryIsAdmin(list, username) ==
    LET i == Min({k \in 1..Len(list) : list[k].username = username})
    IN IF HasKey(list[i], "is_admin") THEN list[i].is_admin ELSE FALSE

\* C11: register_users is idempotent per username: after every call there is
\* exactly one user per username registered so far (also when a username is
\* repeated inside one list), a new user's is_admin is the value of the entry
\* that created it (false when omitted), and the is_admin and the permission
\* edges of a user that existed are not changed by the call, whatever
\* is_admin its entry carries.
C11_RegisterUsersIdempotent ==
    [][RegisterUsersStep =>
        LET list == call'.users
            listed == {list[k].username : k \in 1..Len(list)}
        IN /\ \A u \in users : u \in users'
           /\ {u.username : u \in users'} = {u.username : u \in users} \cup listed
           /\ \A n \in Usernames : Cardinality(RowsOfUser(users', n)) <= 1
           /\ \A u \in users' \ users :
                  /\ RowsOfUser(users, u.username) = {}
                  /\ u.is_admin = FirstEntryIsAdmin(list, u.username)
           /\ search_perms' = search_perms
           /\ register_perms' = register_perms]_vars

\* A list naming a user twice, first as admin and then without is_admin, was
\* registered while the user existed as a non-admin holding a search edge and
\* a register edge: the user is still the one non-admin row.
C11_Witness ==
    /\ call.op = "register_users"
    /\ \E n \in Usernames :
          /\ call.users = <<[username |-> n, is_admin |-> TRUE], [username |-> n]>>
          /\ RowsOfUser(users, n) = {[username |-> n, is_admin |-> FALSE]}
          /\ \E b \in base_uris : <<n, b>> \in search_perms \cap register_perms

\* ------------------------------------------------------------------------
\* Properties of the permission-scoped queries (Spec).
\* ------------------------------------------------------------------------

\* C1: lookup_datasets_by_user_and_uuid returns exactly the admin records
\* whose uuid is the given one and whose base URI the user has a search grant
\* for.
C1_LookupWithinSearchScope ==
    (call.op = "lookup_datasets_by_user_and_uuid" /\ ret.status = "ok")
    => ret.value = SelectSeq(datasets,
                       LAMBDA ds : /\ ds.uuid = call.uuid
                                   /\ <<call.username, ds.base_uri>> \in search_perms)

\* A lookup returned nothing although an admin record with the uuid exists
\* under a base URI on which the user holds a register grant and another user
\* the search grant.
C1_Witness ==
    /\ call.op = "lookup_datasets_by_user_and_uuid"
    /\ ret.status = "ok"
    /\ ret.value = <<>>
    /\ \E i \in 1..Len(datasets) : \E other \in Usernames \ {call.username} :
          /\ datasets[i].uuid = call.uuid
          /\ <<call.username, datasets[i].base_uri>> \in register_perms
          /\ <<other, datasets[i].base_uri>> \in search_perms

\* C2: search_datasets_by_user returns only documents whose base_uri is one
\* of the user's search-granted base URIs, whatever the query (also one that
\* names a base URI itself), and leaves the caller's query mapping as it was.
C2_SearchWithinSearchScope ==
    (call.op = "search_datasets_by_user" /\ ret.status = "ok")
    => /\ \A i \in 1..Len(ret.value.datasets) :
              <<call.username, ret.value.datasets[i]["base_uri"]>> \in search_perms
       /\ ret.value.query = call.query

\* A query naming a base URI outside the user's scope, which holds a
\* document, returned documents of the user's scope.
C2_Witness ==
    /\ call.op = "search_datasets_by_user"
    /\ ret.status = "ok"
    /\ HasKey(call.query, "base_uri")
    /\ <<call.username, call.query["base_uri"]>> \notin search_perms
    /\ \E i \in 1..Len(collection) : collection[i]["base_uri"] = call.query["base_uri"]
    /\ Len(ret.value.datasets) > 0

\* What the three queries answer to the user: status and value, for every
\* order in which the user's base URIs can be iterated and every query.
QueryAnswers(username) ==
    [list |-> {<<r.status, r.value>> :
                  r \in {list_datasets_by_user(username, order) :
                            order \in Orders(search_base_uris(username))}},
     search |-> [query \in Queries |->
                   {<<r.status, r.value>> :
                       r \in {search_datasets_by_user(username, query, order) :
                                 order \in Orders(search_base_uris(username))}}],
     lookup |-> [uuid \in Uuids |->
                   LET r == lookup_datasets_by_user_and_uuid(username, uuid)
                   IN <<r.status, r.value>>]]

EdgesOfUser(edges, username) == {e \in edges : e[1] = username}

\* C13: search and register grants are independent edges: an
\* update_permissions call that lists a user only under
\* users_with_register_permissions adds no search edge for that user, so
\* what list, search and lookup answer to that user is unchanged; a call that
\* lists a user only under users_with_search_permissions adds no register
\* edge; the edges on base URIs other than the one of the call are unchanged.
C13_GrantsIndependent ==
    [][UpdatePermissionsStep =>
        LET p == call'.permissions
            searchers == Range(p.users_with_search_permissions)
            registrars == Range(p.users_with_register_permissions)
        IN /\ \A u \in registrars \ searchers :
                  /\ EdgesOfUser(search_perms', u) = EdgesOfUser(search_perms, u)
                  /\ QueryAnswers(u)' = QueryAnswers(u)
           /\ \A u \in searchers \ registrars :
                  EdgesOfUser(register_perms', u) = EdgesOfUser(register_perms, u)
           /\ {e \in search_perms' : e[2] # p.base_uri}
                = {e \in search_perms : e[2] # p.base_uri}
           /\ {e \in register_perms' : e[2] # p.base_uri}
                = {e \in register_perms : e[2] # p.base_uri}]_vars

\* A successful update listed an existing user only under the register
\* permission of a base URI that holds a dataset: the user has the register
\* edge and no search edge on it.
C13_Witness ==
    /\ call.op = "update_permissions"
    /\ ret.status = "ok"
    /\ \E u \in Usernames :
          LET b == call.permissions.base_uri
          IN /\ u \in Range(call.permissions.users_with_register_permissions)
             /\ u \notin Range(call.permissions.users_with_search_permissions)
             /\ RowsOfUser(users, u) # {}
             /\ <<u, b>> \in register_perms
             /\ <<u, b>> \notin search_perms
             /\ \E i \in 1..Len(datasets) : datasets[i].base_uri = b
             /\ \E i \in 1..Len(collection) : collection[i]["base_uri"] = b

\* The documents of a search result for (uuid, uri).
FoundWithKey(found, key) ==
    {i \in 1..Len(found) : found[i]["uuid"] = key[1] /\ found[i]["uri"] = key[2]}

\* C14: round trip: a successful register_dataset returns the payload's uri
\* and leaves the payload mapping it was handed without an _id; a later
\* search_datasets_by_user by a user with a search grant on the payload's base
\* URI, with a query matching the payload, returns exactly one document for
\* the payload's (uuid, uri), equal to the registered payload and without an
\* _id.
C14_RegisterSearchRoundTrip ==
    /\ [][(RegisterDatasetStep /\ ret'.status = "ok")
          => /\ ret'.value = call'.dataset_info["uri"]
             /\ call'.dataset_info_after = call'.dataset_info
             /\ ~HasKey(call'.dataset_info_after, "_id")]_vars
    /\ []((call.op = "search_datasets_by_user" /\ ret.status = "ok")
          => \A key \in DOMAIN last_registered :
                LET payload == last_registered[key]
                    found == ret.value.datasets
                IN (/\ <<call.username, payload["base_uri"]>> \in search_perms
                    /\ matches(payload, call.query))
                   => /\ Cardinality(FoundWithKey(found, key)) = 1
                      /\ \A i \in FoundWithKey(found, key) :
                             found[i] = payload /\ ~HasKey(found[i], "_id"))

\* A search by name, by a user holding the search grant, returned the one
\* registered payload of that name; the stored document carries an _id, the
\* payload mapping of the last registration does not.
C14_Witness ==
    /\ call.op = "search_datasets_by_user"
    /\ ret.status = "ok"
    /\ call.query = [name |-> "n1"]
    /\ Len(ret.value.datasets) = 1
    /\ \E key \in DOMAIN last_registered :
          /\ ret.value.datasets[1] = last_registered[key]
          /\ <<call.username, last_registered[key]["base_uri"]>> \in search_perms
    /\ \E i \in 1..Len(collection) :
          /\ HasKey(collection[i], "_id")
          /\ DelKey(collection[i], "_id") = ret.value.datasets[1]
    /\ Len(collection) = 2

QueryOps ==
    {"list_datasets_by_user", "search_datasets_by_user", "lookup_datasets_by_user_and_uuid"}

\* The list a query returned.
ResultList(op, value) == IF op = "search_datasets_by_user" THEN value.datasets ELSE value

\* C16: list_datasets_by_user, search_datasets_by_user and
\* lookup_datasets_by_user_and_uuid each fail with AuthenticationError when
\* the username does not exist, each return an empty list (not an error) for
\* an existing user whose search scope is empty, and none of the three changes
\* a user, a base URI, a permission edge, an admin record or a document.
C16_QueriesRejectUnknownUsers ==
    [][call'.op \in QueryOps =>
        /\ IF RowsOfUser(users, call'.username) = {}
           THEN ret'.status = "AuthenticationError"
           ELSE /\ ret'.status = "ok"
                /\ EdgesOfUser(search_perms, call'.username) = {}
                      => ResultList(call'.op, ret'.value) = <<>>
        /\ storeVars' = storeVars]_vars

\* A search by a username without a row failed with AuthenticationError while
\* the stores hold a document that the other user, who exists, may search.
C16_Witness ==
    /\ call.op = "search_datasets_by_user"
    /\ ret.status = "AuthenticationError"
    /\ RowsOfUser(users, call.username) = {}
    /\ \E v \in Usernames \ {call.username} : \E i \in 1..Len(collection) :
          /\ RowsOfUser(users, v) # {}
          /\ <<v, collection[i]["base_uri"]>> \in search_perms
          /\ matches(collection[i], call.query)

\* The uris of the rows or documents of a list.
UrisOf(seq) == {seq[i]["uri"] : i \in 1..Len(seq)}

\* C18: cross-store agreement: every descriptive document has an admin record
\* with the same uri, and that admin record has the uuid and the base URI of
\* the document; so for every user the uris that list_datasets_by_user
\* returns are the uris of the documents that search_datasets_by_user returns
\* for the empty query.
C18_StoresAgree ==
    BetweenCalls =>
    /\ \A i \in 1..Len(collection) :
          LET admin == get_admin_metadata_from_uri(datasets, collection[i]["uri"])
          IN /\ admin # None
             /\ admin.uuid = collection[i]["uuid"]
             /\ admin.base_uri = collection[i]["base_uri"]
    /\ \A u \in users : \A order \in Orders(search_base_uris(u.username)) :
          UrisOf(list_datasets_by_user(u.username, order).value)
            = UrisOf(search_datasets_by_user(u.username, <<>>, order).value.datasets)

\* ------------------------------------------------------------------------
\* Properties of registration against a failing descriptive store (SpecFaulty).
\* ------------------------------------------------------------------------
DocsWithUri(coll, uri) == {i \in 1..Len(coll) : coll[i]["uri"] = uri}

\* The call of the payload ended on a failed descriptive write and its uri
\* has an admin record and no document.
Orphaned(p, dataset_info) ==
    /\ proc[p].pc = "done"
    /\ proc[p].status = "PyMongoError"
    /\ proc[p].dataset_info = dataset_info
    /\ Cardinality(AdminRowsWithUri(datasets, dataset_info["uri"])) = 1
    /\ DocsWithUri(collection, dataset_info["uri"]) = {}

\* A retried call of the payload has succeeded and the stores hold one admin
\* record and one document for its uri, the document being the payload.
Reconciled(p, dataset_info) ==
    /\ proc[p].pc = "done"
    /\ proc[p].status = "ok"
    /\ proc[p].retried
    /\ proc[p].dataset_info = dataset_info
    /\ Cardinality(AdminRowsWithUri(datasets, dataset_info["uri"])) = 1
    /\ Cardinality(DocsWithUri(collection, dataset_info["uri"])) = 1
    /\ \A i \in DocsWithUri(collection, dataset_info["uri"]) :
           DelKey(collection[i], "_id") = dataset_info

\* C17: when the descriptive write of a register_dataset call fails after the
\* admin insert, the admin record stays in the admin store and no document is
\* written (nothing is rolled back); a retry of the request never fails on
\* the admin record that exists; and when the caller retries until a call
\* succeeds, the stores eventually hold exactly one admin record and exactly
\* one document for the uri.
C17_FailedWriteThenRetryConverges ==
    /\ [][\A p \in Procs :
            (proc[p].pc \in {"find_one", "write"} /\ proc'[p].status = "PyMongoError")
            => /\ datasets' = datasets
               /\ collection' = collection
               /\ AdminRowsWithUri(datasets', proc[p].dataset_info["uri"]) # {}]_vars
    /\ [](\A p \in Procs :
            (proc[p].retried /\ proc[p].pc = "done")
            => proc[p].status \in {"ok", "PyMongoError"})
    /\ \A p \in Procs : \A dataset_info \in ConcurrentPayloads :
          Orphaned(p, dataset_info) ~> Reconciled(p, dataset_info)

\* The second retry of a request succeeded: its two earlier calls failed on
\* the descriptive write, the first of them after inserting the admin record.
C17_Witness ==
    /\ nreg = 3
    /\ \E dataset_info \in ConcurrentPayloads : Reconciled(1, dataset_info)
    /\ Len(datasets) = 1
    /\ Len(collection) = 1

\* ------------------------------------------------------------------------
\* Properties of concurrent registration (SpecConcurrent).
\* ------------------------------------------------------------------------
KeyOf(dataset_info) == <<dataset_info["uuid"], dataset_info["uri"]>>

\* No register_dataset call is between two of its store accesses.
Quiescent == \A p \in Procs : proc[p].pc \in {"idle", "done"}

\* C9: under every interleaving of two concurrent register_dataset calls with
\* the same (uuid, uri), the descriptive store never holds two documents for
\* that key, and once both calls have returned it holds exactly one, equal to
\* the payload of one of the two.
C9_ConcurrentUpsertConverges ==
    /\ \A i, j \in 1..Len(collection) :
           KeyOf(collection[i]) = KeyOf(collection[j]) => i = j
    /\ (/\ \A p \in Procs : proc[p].pc = "done" /\ proc[p].status = "ok"
        /\ KeyOf(proc[1].dataset_info) = KeyOf(proc[2].dataset_info))
       => \E i \in 1..Len(collection) :
              /\ DocsWithKey(collection, proc[1].dataset_info["uuid"],
                             proc[1].dataset_info["uri"]) = {i}
              /\ DelKey(collection[i], "_id")
                   \in {proc[1].dataset_info, proc[2].dataset_info}

\* C10: under every interleaving of two concurrent register_dataset calls for
\* the same unseen uri the admin store never holds two admin records for the
\* uri, and when the call that lost the insert has been retried and no call is
\* in flight any more, the retry has succeeded and the stores hold exactly one
\* admin record and one descriptive document for the uri.
C10_ConflictThenRetryConverges ==
    /\ \A i, j \in 1..Len(datasets) : datasets[i].uri = datasets[j].uri => i = j
    /\ \A p \in Procs :
          (/\ proc[p].retried
           /\ Quiescent
           /\ \A q \in Procs : /\ proc[q].pc = "done"
                               /\ KeyOf(proc[q].dataset_info) = KeyOf(proc[p].dataset_info))
          => /\ proc[p].status = "ok"
             /\ Cardinality(AdminRowsWithUri(datasets, proc[p].dataset_info["uri"])) = 1
             /\ Cardinality({i \in 1..Len(collection) :
                               collection[i]["uri"] = proc[p].dataset_info["uri"]}) = 1

====
